---- MODULE Spec2Model ----
(***************************************************************************)
(* GenZVibe: the Express REST routes (src/server/routes.ts, the version     *)
(* registered at lines 613-1172) over DatabaseStorage (the same file,       *)
(* lines 1235-1666) and the tables of the drizzle schema                    *)
(* (src/unnamed/part_000).  MemStorage's queries (src/unnamed/part_007)     *)
(* are modelled next to DatabaseStorage's, over the same rows.              *)
(*                                                                         *)
(* A request is handled to completion in one step, except the like and     *)
(* follow requests of SpecRace, which advance from one await to the next.  *)
(* The first version of POST /api/posts (routes.ts 98-127) is modelled      *)
(* next to the registered one.                                              *)
(***************************************************************************)
EXTENDS Integers, Sequences, FiniteSets, TLC

\* ------------------------------------------------------------------ bounds
MaxUsers    == 2   \* rows ever inserted into users
MaxPosts    == 1   \* rows ever inserted into posts
MaxFollows  == 1   \* rows ever inserted into follows
MaxLikes    == 1   \* rows ever inserted into likes
MaxStories  == 2   \* rows ever inserted into stories
MaxTime     == 3   \* last instant of the clock
GraphUsers   == 3  \* SpecGraph: users (two followers of one user need three)
GraphFollows == 2  \* SpecGraph: rows ever inserted into follows
ApiRows      == 2  \* SpecApi: rows and files ever inserted, all tables but users together
MaxFiles     == 1  \* SpecUpload: files ever stored
OrderPosts   == 2  \* SpecOrder: rows ever inserted into posts
OrderTime    == 1  \* SpecOrder: last instant of the clock
JsonRows     == 2  \* SpecJson: rows ever inserted, all tables but users together
LikeRows     == 2  \* SpecLikes: rows ever inserted into likes and comments together
MaxInflight  == 2  \* SpecRace: requests handled concurrently

\* ------------------------------------------------------------------ values
Null == "null"      \* SQL NULL / JS null or undefined
Anon == 0           \* a request without an authenticated session
NaN  == -1          \* parseInt of a non-numeric string
NoPath == 0         \* no file path (req.file.path is undefined)

\* seedInitialData's users, in insertion order
SeedUsernames == <<"user1", "jay.k", "miachill", "alex.vibe", "lisa.png", "ty.creative">>
SeedPassword == "password123"

VARIABLES
    users,      \* table users:    set of [id, username, password, displayName, bio]
    posts,      \* table posts:    set of [id, userId, caption, type, mediaUrl, createdAt]
    likes,      \* table likes:    set of [id, userId, postId]
    comments,   \* table comments: set of [id, userId, postId, content]
    follows,    \* table follows:  set of [id, followerId, followingId]
    stories,    \* table stories:  set of [id, userId, createdAt, expiresAt]
    serial,     \* next value of each table's serial id
    uploads,    \* files below uploads/: set of [path, dir]
    nextFile,   \* number of the next file multer writes
    now,        \* the clock read by new Date() / defaultNow()
    req,        \* the request handled last
    resp,       \* its response
    inflight    \* the like and follow requests being handled step by step

vars == <<users, posts, likes, comments, follows, stories, serial, uploads, nextFile, now, req, resp,
          inflight>>
tables == <<users, posts, likes, comments, follows, stories>>

Tables == {"users", "posts", "likes", "comments", "follows", "stories"}

NoReq == [route |-> "none", caller |-> Anon, id |-> 0, arg |-> Null]
NoResp == [handler |-> "none", status |-> 0, msg |-> "", data |-> {}]

\* a request slot no request has used yet
Idle == [pc |-> "idle", route |-> "none", caller |-> Anon, id |-> 0, status |-> 0]

\* a request handled in one step: the requests in flight stay where they are
Request(route, caller, id, arg) ==
    /\ req' = [route |-> route, caller |-> caller, id |-> id, arg |-> arg]
    /\ UNCHANGED inflight

Respond(handler, status, msg, data) ==
    resp' = [handler |-> handler, status |-> status, msg |-> msg, data |-> data]

NextSerial(t) == serial' = [serial EXCEPT ![t] = @ + 1]

\* ------------------------------------------------------- DatabaseStorage
UserIds == {u.id : u \in users}

\* getUser: the row with that id, or none
GetUser(id) == {u \in users : u.id = id}

GetUserByUsername(name) == {u \in users : u.username = name}

\* getPost: the row with that id, or none
GetPost(id) == {p \in posts : p.id = id}

IsFollowing(followerId, followingId) ==
    \E f \in follows : f.followerId = followerId /\ f.followingId = followingId

\* the follower ids of the rows select().from(follows).where(followingId = userId)
FollowerIds(userId) == {f.followerId : f \in {g \in follows : g.followingId = userId}}
FollowingIds(userId) == {f.followingId : f \in {g \in follows : g.followerId = userId}}

\* getFollowers: the users whose id is followerIds[0].  The select has no ORDER BY,
\* so any matching row may come first: the set of the results the query can give.
GetFollowers(userId) ==
    IF FollowerIds(userId) = {} THEN {{}}
    ELSE {{u \in users : u.id = first} : first \in FollowerIds(userId)}

GetFollowing(userId) ==
    IF FollowingIds(userId) = {} THEN {{}}
    ELSE {{u \in users : u.id = first} : first \in FollowingIds(userId)}

\* getFeedPosts: followedUserIds is computed and not used; the where clause is
\* eq(posts.userId, userId)
GetFeedPosts(userId) == {p \in posts : p.userId = userId}

GetUserPosts(userId) == {p \in posts : p.userId = userId}

CreateFollowSwapped(followerId, followingId) ==
    /\ follows' = follows \cup {[id |-> serial["follows"], followerId |-> followingId, followingId |-> followerId]}
    /\ NextSerial("follows")
    /\ Respond("POST /api/users/:id/follow", 201, "", {serial["follows"]})

\* createFollow, answered by the follow route with 201 and the row
CreateFollow(followerId, followingId) ==
    IF IsFollowing(followerId, followingId)
    THEN /\ UNCHANGED <<follows, serial>>
         /\ Respond("POST /api/users/:id/follow", 201, "",
                    {f.id : f \in {g \in follows : g.followerId = followerId /\ g.followingId = followingId}})
    ELSE /\ follows' = follows \cup {[id |-> serial["follows"], followerId |-> followerId, followingId |-> followingId]}
         /\ NextSerial("follows")
         /\ Respond("POST /api/users/:id/follow", 201, "", {serial["follows"]})

\* deleteFollow: delete ... where followerId and followingId match, returning the rows
DeleteFollow(followerId, followingId) ==
    follows' = {f \in follows : ~(f.followerId = followerId /\ f.followingId = followingId)}

\* a post row is referenced by likes.post_id or comments.post_id (foreign keys,
\* no ON DELETE action): the delete is refused by the database
PostReferenced(id) == (\E l \in likes : l.postId = id) \/ (\E c \in comments : c.postId = id)

\* ------------------------------------------------------------ MemStorage
MemGetFollowers(userId) ==
    {u \in users : u.id \in {f.followerId : f \in {g \in follows : g.followingId = userId}}}

MemGetFollowing(userId) ==
    {u \in users : u.id \in {f.followingId : f \in {g \in follows : g.followerId = userId}}}

MemGetFeedPosts(userId) ==
    {p \in posts : p.userId \in ({u.id : u \in MemGetFollowing(userId)} \cup {userId})}

\* ------------------------------------------------------------ middleware
IsAuthenticatedAlways(caller) == TRUE

\* isAuthenticated: req.isAuthenticated(), else 401
IsAuthenticated(caller) == caller # Anon

Unauthorized(handler) == Respond(handler, 401, "Unauthorized", {})

\* ------------------------------------------------------------------ Init
Init ==
    /\ users = {} /\ posts = {} /\ likes = {} /\ comments = {}
    /\ follows = {} /\ stories = {}
    /\ serial = [t \in Tables |-> 1]
    /\ uploads = {} /\ nextFile = 1
    /\ now = 0
    /\ req = NoReq /\ resp = NoResp
    /\ inflight = [n \in 1..MaxInflight |-> Idle]

\* ----------------------------------------------------- storage-level calls
\* createUser, as seedInitialData calls it for each of its users
CreateUser ==
    /\ serial["users"] <= Len(SeedUsernames)
    /\ users' = users \cup {[id |-> serial["users"], username |-> SeedUsernames[serial["users"]],
                             password |-> SeedPassword, displayName |-> "name", bio |-> Null]}
    /\ NextSerial("users")
    /\ req' = NoReq /\ resp' = NoResp /\ UNCHANGED inflight
    /\ UNCHANGED <<posts, likes, comments, follows, stories, uploads, nextFile, now>>

\* createPost with a valid InsertPost (userId references users.id)
CreatePost(userId, type, mediaUrl) ==
    /\ userId \in UserIds
    /\ posts' = posts \cup {[id |-> serial["posts"], userId |-> userId, caption |-> "caption",
                             type |-> type, mediaUrl |-> mediaUrl, createdAt |-> now]}
    /\ NextSerial("posts")
    /\ req' = NoReq /\ resp' = NoResp /\ UNCHANGED inflight
    /\ UNCHANGED <<users, likes, comments, follows, stories, uploads, nextFile, now>>

\* ---------------------------------------------------------------- routes
SelfFollowAllowed(caller, id) == FALSE

\* followingId === currentUser.id
IsSelfFollow(caller, id) == id = caller

\* POST /api/users/:id/follow
PostFollow(caller, id) ==
    /\ Request("POST /api/users/:id/follow", caller, id, Null)
    /\ IF ~IsAuthenticated(caller)
       THEN Unauthorized("isAuthenticated") /\ UNCHANGED <<follows, serial>>
       ELSE IF IsSelfFollow(caller, id)
       THEN /\ Respond("POST /api/users/:id/follow", 400, "You cannot follow yourself", {})
            /\ UNCHANGED <<follows, serial>>
       ELSE IF GetUser(id) = {}
       THEN /\ Respond("POST /api/users/:id/follow", 404, "User to follow not found", {})
            /\ UNCHANGED <<follows, serial>>
       ELSE CreateFollow(caller, id)
    /\ UNCHANGED <<users, posts, likes, comments, stories, uploads, nextFile, now>>

\* DELETE /api/users/:id/follow
DeleteFollowRoute(caller, id) ==
    /\ Request("DELETE /api/users/:id/follow", caller, id, Null)
    /\ IF ~IsAuthenticated(caller)
       THEN Unauthorized("isAuthenticated") /\ UNCHANGED follows
       ELSE IF ~IsFollowing(caller, id)
       THEN /\ Respond("DELETE /api/users/:id/follow", 404, "Follow relationship not found or already deleted", {})
            /\ UNCHANGED follows
       ELSE /\ DeleteFollow(caller, id)
            /\ Respond("DELETE /api/users/:id/follow", 200, "Unfollowed successfully", {})
    /\ UNCHANGED <<users, posts, likes, comments, stories, serial, uploads, nextFile, now>>

OwnsAnyPost(post, caller) == TRUE

\* post.userId !== currentUser.id, negated
OwnsPost(post, caller) == post.userId = caller

\* post.mediaPath: the posts table of the schema has no such column, so the row
\* drizzle returns never carries it
PostMediaPath(post) == NoPath

\* DELETE /api/posts/:id
DeletePostRoute(caller, id) ==
    /\ Request("DELETE /api/posts/:id", caller, id, Null)
    /\ IF ~IsAuthenticated(caller)
       THEN Unauthorized("isAuthenticated") /\ UNCHANGED <<posts, uploads>>
       ELSE IF GetPost(id) = {}
       THEN /\ Respond("DELETE /api/posts/:id", 404, "Post not found", {})
            /\ UNCHANGED <<posts, uploads>>
       ELSE LET post == CHOOSE p \in GetPost(id) : TRUE IN
            IF ~OwnsPost(post, caller)
            THEN /\ Respond("DELETE /api/posts/:id", 403, "You can only delete your own posts", {})
                 /\ UNCHANGED <<posts, uploads>>
            ELSE /\ uploads' = {f \in uploads : f.path # PostMediaPath(post)}
                 /\ IF PostReferenced(id)
                    THEN /\ Respond("DELETE /api/posts/:id", 500, "Error deleting post", {})
                         /\ UNCHANGED posts
                    ELSE /\ posts' = posts \ {post}
                         /\ Respond("DELETE /api/posts/:id", 200, "Post deleted successfully", {})
    /\ UNCHANGED <<users, likes, comments, follows, stories, serial, nextFile, now>>

\* ------------------------------------------------------------ stories
\* createStory
CreateStory(userId, expiresAt) ==
    /\ userId \in UserIds
    /\ stories' = stories \cup {[id |-> serial["stories"], userId |-> userId,
                                 createdAt |-> now, expiresAt |-> expiresAt]}
    /\ NextSerial("stories")
    /\ req' = NoReq /\ resp' = NoResp /\ UNCHANGED inflight
    /\ UNCHANGED <<users, posts, likes, comments, follows, uploads, nextFile, now>>

\* time passes between two calls
Tick ==
    /\ now' = now + 1
    /\ req' = NoReq /\ resp' = NoResp /\ UNCHANGED inflight
    /\ UNCHANGED <<users, posts, likes, comments, follows, stories, serial, uploads, nextFile>>

NotYetExpired(expiresAt, t) == expiresAt >= t

\* gt(stories.expiresAt, now)
StoryActive(expiresAt, t) == expiresAt > t

\* getActiveStories, at the instant new Date() gives
GetActiveStories == {s \in stories : StoryActive(s.expiresAt, now)}

\* getUserStories
GetUserStories(userId) == {s \in stories : s.userId = userId /\ StoryActive(s.expiresAt, now)}

\* story.expiresAt > now
MemStoryActive(expiresAt, t) == expiresAt > t

MemGetActiveStories == {s \in stories : MemStoryActive(s.expiresAt, now)}

MemGetUserStories(userId) == {s \in stories : s.userId = userId /\ MemStoryActive(s.expiresAt, now)}

\* ------------------------------------------------------ likes and comments
SomeoneLikedPost(userId, postId) == \E l \in likes : l.postId = postId

HasUserLikedPost(userId, postId) == \E l \in likes : l.userId = userId /\ l.postId = postId

GetLikesByPost(postId) == {l \in likes : l.postId = postId}

GetCommentsByPost(postId) == {c \in comments : c.postId = postId}

CreateLikeAgain(userId, postId) ==
    /\ likes' = likes \cup {[id |-> serial["likes"], userId |-> userId, postId |-> postId]}
    /\ NextSerial("likes")
    /\ Respond("POST /api/posts/:id/like", 201, "", {serial["likes"]})

\* createLike, answered by the like route with 201 and the row
CreateLike(userId, postId) ==
    IF HasUserLikedPost(userId, postId)
    THEN /\ UNCHANGED <<likes, serial>>
         /\ Respond("POST /api/posts/:id/like", 201, "",
                    {l.id : l \in {k \in likes : k.userId = userId /\ k.postId = postId}})
    ELSE /\ likes' = likes \cup {[id |-> serial["likes"], userId |-> userId, postId |-> postId]}
         /\ NextSerial("likes")
         /\ Respond("POST /api/posts/:id/like", 201, "", {serial["likes"]})

\* POST /api/posts/:id/like
PostLike(caller, id) ==
    /\ Request("POST /api/posts/:id/like", caller, id, Null)
    /\ IF ~IsAuthenticated(caller)
       THEN Unauthorized("isAuthenticated") /\ UNCHANGED <<likes, serial>>
       ELSE IF GetPost(id) = {}
       THEN /\ Respond("POST /api/posts/:id/like", 404, "Post not found", {})
            /\ UNCHANGED <<likes, serial>>
       ELSE CreateLike(caller, id)
    /\ UNCHANGED <<users, posts, comments, follows, stories, uploads, nextFile, now>>

\* DELETE /api/posts/:id/like
DeleteLikeRoute(caller, id) ==
    /\ Request("DELETE /api/posts/:id/like", caller, id, Null)
    /\ IF ~IsAuthenticated(caller)
       THEN Unauthorized("isAuthenticated") /\ UNCHANGED likes
       ELSE IF ~HasUserLikedPost(caller, id)
       THEN /\ Respond("DELETE /api/posts/:id/like", 404, "Like not found or already deleted", {})
            /\ UNCHANGED likes
       ELSE /\ likes' = {l \in likes : ~(l.userId = caller /\ l.postId = id)}
            /\ Respond("DELETE /api/posts/:id/like", 200, "Like removed successfully", {})
    /\ UNCHANGED <<users, posts, comments, follows, stories, serial, uploads, nextFile, now>>

\* insertCommentSchema.parse: content is a required string
CommentValid(content) == content # Null

\* POST /api/posts/:id/comments
PostComment(caller, id, content) ==
    /\ Request("POST /api/posts/:id/comments", caller, id, content)
    /\ IF ~IsAuthenticated(caller)
       THEN Unauthorized("isAuthenticated") /\ UNCHANGED <<comments, serial>>
       ELSE IF GetPost(id) = {}
       THEN /\ Respond("POST /api/posts/:id/comments", 404, "Post not found", {})
            /\ UNCHANGED <<comments, serial>>
       ELSE IF ~CommentValid(content)
       THEN /\ Respond("POST /api/posts/:id/comments", 400, "Invalid data", {})
            /\ UNCHANGED <<comments, serial>>
       ELSE /\ comments' = comments \cup {[id |-> serial["comments"], userId |-> caller,
                                           postId |-> id, content |-> content]}
            /\ NextSerial("comments")
            /\ IF GetUser(caller) = {}
               THEN Respond("POST /api/posts/:id/comments", 404, "User not found", {})
               ELSE Respond("POST /api/posts/:id/comments", 201, "", {serial["comments"]})
    /\ UNCHANGED <<users, posts, likes, follows, stories, uploads, nextFile, now>>

\* ------------------------------------- like and follow requests, by steps
\* A handler runs until its next await; the steps of other requests can come in
\* between.  createLike and createFollow await the existence check, then either
\* the select of the existing row or the insert.
Slots == 1..MaxInflight

Answer(n, status, msg, data) ==
    /\ inflight' = [inflight EXCEPT ![n] = [@ EXCEPT !.pc = "done", !.status = status]]
    /\ req' = [route |-> inflight[n].route, caller |-> inflight[n].caller,
               id |-> inflight[n].id, arg |-> Null]
    /\ Respond(inflight[n].route, status, msg, data)

Await(n, pc) ==
    /\ inflight' = [inflight EXCEPT ![n].pc = pc]
    /\ UNCHANGED <<req, resp>>

\* the rows of the request's table that match its user and target
Existing(r) ==
    IF r.route = "POST /api/posts/:id/like"
    THEN {l \in likes : l.userId = r.caller /\ l.postId = r.id}
    ELSE {f \in follows : f.followerId = r.caller /\ f.followingId = r.id}

\* POST /api/posts/:id/like up to createLike's first await
BeginLike(n, caller, id) ==
    /\ inflight[n].pc = "idle"
    /\ IsAuthenticated(caller) /\ GetPost(id) # {}
    /\ inflight' = [inflight EXCEPT ![n] = [pc |-> "check", route |-> "POST /api/posts/:id/like",
                                            caller |-> caller, id |-> id, status |-> 0]]
    /\ UNCHANGED <<tables, serial, uploads, nextFile, now, req, resp>>

\* POST /api/users/:id/follow up to createFollow's first await
BeginFollow(n, caller, id) ==
    /\ inflight[n].pc = "idle"
    /\ IsAuthenticated(caller) /\ ~IsSelfFollow(caller, id) /\ GetUser(id) # {}
    /\ inflight' = [inflight EXCEPT ![n] = [pc |-> "check", route |-> "POST /api/users/:id/follow",
                                            caller |-> caller, id |-> id, status |-> 0]]
    /\ UNCHANGED <<tables, serial, uploads, nextFile, now, req, resp>>

\* const exists = await this.hasUserLikedPost(...) / this.isFollowing(...)
CheckExists(n) ==
    /\ inflight[n].pc = "check"
    /\ Await(n, IF Existing(inflight[n]) # {} THEN "select" ELSE "insert")
    /\ UNCHANGED <<tables, serial, uploads, nextFile, now>>

\* const [existing] = await db.select()...; if (existing) return existing
SelectExisting(n) ==
    /\ inflight[n].pc = "select"
    /\ IF Existing(inflight[n]) = {}
       THEN Await(n, "insert")
       ELSE \E row \in Existing(inflight[n]) : Answer(n, 201, "", {row.id})
    /\ UNCHANGED <<tables, serial, uploads, nextFile, now>>

\* const [row] = await db.insert(...).values(...).returning(); return row
InsertRow(n) ==
    /\ inflight[n].pc = "insert"
    /\ IF inflight[n].route = "POST /api/posts/:id/like"
       THEN /\ likes' = likes \cup {[id |-> serial["likes"], userId |-> inflight[n].caller,
                                     postId |-> inflight[n].id]}
            /\ NextSerial("likes")
            /\ Answer(n, 201, "", {serial["likes"]})
            /\ UNCHANGED follows
       ELSE /\ follows' = follows \cup {[id |-> serial["follows"], followerId |-> inflight[n].caller,
                                         followingId |-> inflight[n].id]}
            /\ NextSerial("follows")
            /\ Answer(n, 201, "", {serial["follows"]})
            /\ UNCHANGED likes
    /\ UNCHANGED <<users, posts, comments, stories, uploads, nextFile, now>>

\* --------------------------------------------------------- POST /api/posts
NoFile == [major |-> "none", sub |-> "none"]
Mimetypes == {[major |-> "image", sub |-> "png"], [major |-> "video", sub |-> "mp4"],
              [major |-> "application", sub |-> "pdf"]}

\* fileFilter: images and videos only
FileFilter(file) == file.major = "image" \/ file.major = "video"

\* diskStorage.destination
UploadDir(file) ==
    IF file.major = "image" THEN "uploads/images"
    ELSE IF file.major = "video" THEN "uploads/videos"
    ELSE "uploads"

\* upload.single("media"): the file multer stored for the handler, if any
FileStored(file) == file # NoFile /\ FileFilter(file)

\* getPostTypeFromMimetype
GetPostTypeFromMimetype(file) ==
    IF file = NoFile THEN "text"
    ELSE IF file.major = "image" THEN "image"
    ELSE IF file.major = "video" THEN "video"
    ELSE "text"

\* the handler's postData
PostData(caller, caption, file) ==
    [userId    |-> caller,
     caption   |-> caption,
     location  |-> Null,
     postType  |-> IF FileStored(file) THEN GetPostTypeFromMimetype(file) ELSE "text",
     mediaPath |-> IF FileStored(file) THEN "path" ELSE Null,
     mediaType |-> IF FileStored(file) THEN file.major ELSE Null]

\* insertPostSchema.parse: createInsertSchema(posts) without id and createdAt;
\* userId, caption and type are notNull columns without default, so required
InsertPostSchemaParse(data) ==
    /\ "userId" \in DOMAIN data
    /\ "caption" \in DOMAIN data /\ data["caption"] # Null
    /\ "type" \in DOMAIN data /\ data["type"] # Null

\* POST /api/posts: isAuthenticated, upload.single("media"), handler
PostPosts(caller, caption, file) ==
    /\ Request("POST /api/posts", caller, 0, [caption |-> caption, file |-> file])
    /\ IF ~IsAuthenticated(caller)
       THEN Unauthorized("isAuthenticated") /\ UNCHANGED <<posts, serial, uploads, nextFile>>
       ELSE /\ IF FileStored(file)
               THEN /\ uploads' = uploads \cup {[path |-> nextFile, dir |-> UploadDir(file)]}
                    /\ nextFile' = nextFile + 1
               ELSE UNCHANGED <<uploads, nextFile>>
            /\ LET data == PostData(caller, caption, file) IN
               IF ~InsertPostSchemaParse(data)
               THEN /\ Respond("POST /api/posts", 400, "Invalid data", {})
                    /\ UNCHANGED <<posts, serial>>
               ELSE /\ posts' = posts \cup {[id |-> serial["posts"], userId |-> data["userId"],
                                             caption |-> data["caption"], type |-> data["type"],
                                             mediaUrl |-> Null, createdAt |-> now]}
                    /\ NextSerial("posts")
                    /\ IF GetUser(caller) = {}
                       THEN Respond("POST /api/posts", 404, "User not found", {})
                       ELSE Respond("POST /api/posts", 201, "", {serial["posts"]})
    /\ UNCHANGED <<users, likes, comments, follows, stories, now>>

\* ------------------------------------- POST /api/posts, the earlier version
\* req.body.type: whatever string the client sends, or nothing
BodyTypes == {Null, "text", "image", "video", "audio"}

\* the earlier multer instance has memoryStorage and no fileFilter: req.file is
\* whatever file was sent
EarlierFileReceived(file) == file # NoFile

\* the earlier handler's postData: type is req.body.type
EarlierPostData(caller, caption, type, mediaUrl) ==
    [userId   |-> caller,
     caption  |-> caption,
     location |-> Null,
     type     |-> type,
     mediaUrl |-> mediaUrl]

\* POST /api/posts as first written: isAuthenticated, upload.single("media"),
\* objectStorage.upload and getSignedUrl for a file, insertPostSchema.parse,
\* storage.createPost
PostPostsEarlier(caller, caption, type, file) ==
    /\ Request("POST /api/posts", caller, 0, [caption |-> caption, file |-> file, type |-> type])
    /\ IF ~IsAuthenticated(caller)
       THEN Unauthorized("isAuthenticated") /\ UNCHANGED <<posts, serial, uploads, nextFile>>
       ELSE \/ /\ EarlierFileReceived(file)
               /\ Respond("POST /api/posts", 500, "Error creating post", {})
               /\ UNCHANGED <<posts, serial, uploads, nextFile>>
            \/ /\ IF EarlierFileReceived(file)
                  THEN /\ uploads' = uploads \cup {[path |-> nextFile, dir |-> "bucket"]}
                       /\ nextFile' = nextFile + 1
                  ELSE UNCHANGED <<uploads, nextFile>>
               /\ LET data == EarlierPostData(caller, caption, type,
                                              IF EarlierFileReceived(file) THEN "url" ELSE Null) IN
                  IF ~InsertPostSchemaParse(data)
                  THEN /\ Respond("POST /api/posts", 400, "Invalid data", {})
                       /\ UNCHANGED <<posts, serial>>
                  ELSE /\ posts' = posts \cup {[id |-> serial["posts"], userId |-> data["userId"],
                                                caption |-> data["caption"], type |-> data["type"],
                                                mediaUrl |-> data["mediaUrl"], createdAt |-> now]}
                       /\ NextSerial("posts")
                       /\ Respond("POST /api/posts", 201, "", {serial["posts"]})
    /\ UNCHANGED <<users, likes, comments, follows, stories, now>>

\* ------------------------------------------------------ PATCH /api/users/:id
AnyoneMayUpdate(caller, id) == TRUE

\* currentUser.id !== userId, negated
IsOwnProfile(caller, id) == caller = id

\* updateUser: set {...data, displayName: data.displayName || null, bio: data.bio || null}
UpdateUser(user, data) ==
    [user EXCEPT !.displayName = data.displayName,
                 !.bio = data.bio,
                 !.password = IF data.password = Null THEN @ ELSE data.password]

PatchUser(caller, id, body) ==
    /\ Request("PATCH /api/users/:id", caller, id, body)
    /\ IF ~IsAuthenticated(caller)
       THEN Unauthorized("isAuthenticated") /\ UNCHANGED users
       ELSE IF ~IsOwnProfile(caller, id)
       THEN /\ Respond("PATCH /api/users/:id", 403, "You can only update your own profile", {})
            /\ UNCHANGED users
       ELSE IF GetUser(id) = {}
       THEN /\ Respond("PATCH /api/users/:id", 404, "User not found", {})
            /\ UNCHANGED users
       ELSE /\ users' = {IF u.id = id THEN UpdateUser(u, body) ELSE u : u \in users}
            /\ Respond("PATCH /api/users/:id", 200, "", {id})
    /\ UNCHANGED <<posts, likes, comments, follows, stories, serial, uploads, nextFile, now>>

\* ------------------------------------------------------------ GET routes
\* the GET routes of registerRoutes, in registration order
GetRoutes ==
    << <<"api", "users", ":id">>,
       <<"api", "users", ":username", "exists">>,
       <<"api", "users", "search">>,
       <<"api", "posts">>,
       <<"api", "posts", "feed">>,
       <<"api", "posts", ":id">>,
       <<"api", "users", ":id", "posts">>,
       <<"api", "posts", ":id", "comments">>,
       <<"api", "users", ":id", "followers">>,
       <<"api", "users", ":id", "following">>,
       <<"api", "users", ":id", "is-following">>,
       <<"api", "stories">>,
       <<"api", "users", ":id", "stories">> >>

GetRouteNames ==
    << "GET /api/users/:id", "GET /api/users/:username/exists", "GET /api/users/search",
       "GET /api/posts", "GET /api/posts/feed", "GET /api/posts/:id",
       "GET /api/users/:id/posts", "GET /api/posts/:id/comments",
       "GET /api/users/:id/followers", "GET /api/users/:id/following",
       "GET /api/users/:id/is-following", "GET /api/stories", "GET /api/users/:id/stories" >>

\* a named parameter matches any one segment
IsParam(segment) == segment \in {":id", ":username"}

Matches(pattern, path) ==
    /\ Len(pattern) = Len(path)
    /\ \A i \in 1..Len(pattern) : IsParam(pattern[i]) \/ pattern[i] = path[i]

\* the router: the first registered route that matches answers (0: none)
FirstMatch(path) ==
    LET m == {i \in 1..Len(GetRoutes) : Matches(GetRoutes[i], path)} IN
    IF m = {} THEN 0 ELSE CHOOSE i \in m : \A j \in m : i <= j

Digits == <<"1", "2", "3", "4", "5", "6", "7", "8", "9">>

\* parseInt of a path segment
ParseInt(segment) ==
    IF \E n \in 1..Len(Digits) : Digits[n] = segment
    THEN CHOOSE n \in 1..Len(Digits) : Digits[n] = segment
    ELSE NaN

\* query.toLowerCase()
ToLowerCase(q) == IF q = "JAY.K" THEN "jay.k" ELSE q

\* searchUsers: eq(users.username, `%${query.toLowerCase()}%`)
SearchUsers(q) ==
    IF q = Null \/ q = "" THEN {}
    ELSE {u \in users : u.username = ("%" \o ToLowerCase(q)) \o "%"}

Ids(rows) == {r.id : r \in rows}

\* a select by an id that is NaN: the driver either fails or finds no row
LookupNaN(h, notFound, failed) ==
    \/ Respond(h, 404, notFound, {})
    \/ Respond(h, 500, failed, {})

\* {...post, user, likes: likes.length, comments: comments.length, hasLiked}
PostWithData(post, caller) ==
    [id       |-> post.id,
     likes    |-> Cardinality(GetLikesByPost(post.id)),
     comments |-> Cardinality(GetCommentsByPost(post.id)),
     hasLiked |-> IsAuthenticated(caller) /\ HasUserLikedPost(caller, post.id)]

\* the handler of GET route h, for the path and the query parameter q
GetHandler(h, caller, path, q) ==
    LET name == GetRouteNames[h]
        id == ParseInt(path[3])
    IN
    CASE h = 1 ->
           IF id = NaN THEN LookupNaN(name, "User not found", "Error fetching user")
           ELSE IF GetUser(id) = {} THEN Respond(name, 404, "User not found", {})
           ELSE Respond(name, 200, "", {id})
      [] h = 2 ->
           Respond(name, 200, IF GetUserByUsername(path[3]) # {} THEN "exists" ELSE "free", {})
      [] h = 3 ->
           IF q = Null \/ q = ""
           THEN Respond(name, 400, "Query parameter 'q' is required", {})
           ELSE Respond(name, 200, "", Ids(SearchUsers(q)))
      [] h = 4 ->
           Respond(name, 200, "", Ids({p \in posts : GetUser(p.userId) # {}}))
      [] h = 5 ->
           IF ~IsAuthenticated(caller) THEN Unauthorized("isAuthenticated")
           ELSE Respond(name, 200, "", Ids({p \in GetFeedPosts(caller) : GetUser(p.userId) # {}}))
      [] h = 6 ->
           IF id = NaN THEN LookupNaN(name, "Post not found", "Error fetching post")
           ELSE IF GetPost(id) = {} THEN Respond(name, 404, "Post not found", {})
           ELSE IF \A p \in GetPost(id) : GetUser(p.userId) = {}
           THEN Respond(name, 404, "User not found", {})
           ELSE Respond(name, 200, "", {PostWithData(p, caller) : p \in GetPost(id)})
      [] h = 7 ->
           IF id = NaN THEN LookupNaN(name, "", "Error fetching user posts")
           ELSE Respond(name, 200, "", IF GetUser(id) = {} THEN {} ELSE Ids(GetUserPosts(id)))
      [] h = 8 ->
           IF id = NaN THEN LookupNaN(name, "Post not found", "Error fetching comments")
           ELSE IF GetPost(id) = {} THEN Respond(name, 404, "Post not found", {})
           ELSE Respond(name, 200, "", Ids({c \in GetCommentsByPost(id) : GetUser(c.userId) # {}}))
      [] h = 9 ->
           IF id = NaN THEN LookupNaN(name, "User not found", "Error fetching followers")
           ELSE IF GetUser(id) = {} THEN Respond(name, 404, "User not found", {})
           ELSE \E r \in GetFollowers(id) : Respond(name, 200, "", Ids(r))
      [] h = 10 ->
           IF id = NaN THEN LookupNaN(name, "User not found", "Error fetching following")
           ELSE IF GetUser(id) = {} THEN Respond(name, 404, "User not found", {})
           ELSE \E r \in GetFollowing(id) : Respond(name, 200, "", Ids(r))
      [] h = 11 ->
           IF ~IsAuthenticated(caller) THEN Unauthorized("isAuthenticated")
           ELSE IF id = NaN THEN LookupNaN(name, "", "Error checking follow status")
           ELSE Respond(name, 200, IF IsFollowing(caller, id) THEN "true" ELSE "false", {})
      [] h = 12 ->
           Respond(name, 200, "", Ids({st \in GetActiveStories : GetUser(st.userId) # {}}))
      [] h = 13 ->
           IF id = NaN THEN LookupNaN(name, "User not found", "Error fetching user stories")
           ELSE IF GetUser(id) = {} THEN Respond(name, 404, "User not found", {})
           ELSE Respond(name, 200, "", Ids(GetUserStories(id)))

\* a GET request: the router picks the handler
Get(caller, path, q) ==
    /\ Request("GET", caller, 0, [path |-> path, q |-> q])
    /\ IF FirstMatch(path) = 0
       THEN Respond("none", 404, "", {})
       ELSE GetHandler(FirstMatch(path), caller, path, q)
    /\ UNCHANGED <<users, posts, likes, comments, follows, stories, serial, uploads, nextFile, now>>

\* ------------------------------------------------------ ordered post lists
\* the orders in which a scan can meet the rows of a set
ScanOrders(rows) ==
    {f \in [1..Cardinality(rows) -> rows] : \A i, j \in 1..Cardinality(rows) : i # j => f[i] # f[j]}

\* Array.from(this.posts.values()): a Map iterates in insertion order, and ids
\* are handed out in insertion order
InsertionOrder(rows) ==
    CHOOSE f \in ScanOrders(rows) : \A i, j \in 1..Cardinality(rows) : i < j => f[i].id < f[j].id

OldestFirst(a, b) == a.createdAt - b.createdAt

\* (a, b) => b.createdAt.getTime() - a.createdAt.getTime(); desc(posts.createdAt)
NewestFirst(a, b) == b.createdAt - a.createdAt

\* one step of a stable sort: x, which came after every element of the sorted
\* list s, goes in front of the first element that must follow it
RECURSIVE SortInsert(_, _)
SortInsert(x, s) ==
    IF s = <<>> THEN <<x>>
    ELSE IF NewestFirst(Head(s), x) > 0 THEN <<x>> \o s
    ELSE <<Head(s)>> \o SortInsert(x, Tail(s))

\* .sort(comparator) / ORDER BY
RECURSIVE SortByCreatedAt(_)
SortByCreatedAt(s) ==
    IF s = <<>> THEN <<>>
    ELSE SortInsert(s[Len(s)], SortByCreatedAt(SubSeq(s, 1, Len(s) - 1)))

\* .limit(limit).offset(offset) / .slice(offset, offset + limit)
Slice(s, limit, offset) ==
    SubSeq(s, offset + 1, IF offset + limit < Len(s) THEN offset + limit ELSE Len(s))

\* the lists an ordered select can return: the rows are met in any order and
\* sorted, so rows of equal createdAt come in any order
OrderBy(rows) == {SortByCreatedAt(f) : f \in ScanOrders(rows)}

\* getPosts(limit, offset)
GetPostsOrdered(limit, offset) == {Slice(l, limit, offset) : l \in OrderBy(posts)}

\* getUserPosts, as the list it returns
GetUserPostsOrdered(userId) == OrderBy(GetUserPosts(userId))

\* getFeedPosts, as the list it returns
GetFeedPostsOrdered(userId) == OrderBy(GetFeedPosts(userId))

MemGetPostsOrdered(limit, offset) == Slice(SortByCreatedAt(InsertionOrder(posts)), limit, offset)

MemGetUserPostsOrdered(userId) ==
    SortByCreatedAt(InsertionOrder({p \in posts : p.userId = userId}))

MemGetFeedPostsOrdered(userId) == SortByCreatedAt(InsertionOrder(MemGetFeedPosts(userId)))

\* ------------------------------------------------------ response bodies
WithPassword(user) == user

\* const { password, ...userWithoutPassword } = user
WithoutPassword(user) == [k \in DOMAIN user \ {"password"} |-> user[k]]

\* rows.map(row => ({...row, user: userWithoutPassword})) with the rows whose
\* user is missing filtered out
WithUser(rows) ==
    {[row |-> x[1], user |-> WithoutPassword(x[2])] :
        x \in {y \in rows \X users : y[2].id = y[1].userId}}

\* the routes of registerRoutes that put user objects in their answer
JsonRoutes ==
    {"GET /api/users/:id", "GET /api/users/search", "PATCH /api/users/:id",
     "GET /api/posts", "GET /api/posts/feed", "GET /api/posts/:id",
     "GET /api/users/:id/posts", "POST /api/posts/:id/comments",
     "GET /api/posts/:id/comments", "GET /api/users/:id/followers",
     "GET /api/users/:id/following", "GET /api/stories", "GET /api/users/:id/stories"}

\* the bodies the handler of a route can send with its 200 or 201 answer, for
\* the caller, the :id parameter and the query or request body arg (no body:
\* the handler answers with an error message instead)
Json(route, caller, id, arg) ==
    CASE route = "GET /api/users/:id" ->
           IF GetUser(id) = {} THEN {} ELSE {{WithoutPassword(u) : u \in GetUser(id)}}
      [] route = "GET /api/users/search" ->
           IF arg = Null \/ arg = "" THEN {} ELSE {{WithoutPassword(u) : u \in SearchUsers(arg)}}
      [] route = "PATCH /api/users/:id" ->
           IF ~IsAuthenticated(caller) \/ ~IsOwnProfile(caller, id) \/ GetUser(id) = {} THEN {}
           ELSE {{WithoutPassword(UpdateUser(u, arg)) : u \in GetUser(id)}}
      [] route = "GET /api/posts" -> {WithUser(posts)}
      [] route = "GET /api/posts/feed" ->
           IF ~IsAuthenticated(caller) THEN {} ELSE {WithUser(GetFeedPosts(caller))}
      [] route = "GET /api/posts/:id" ->
           IF WithUser(GetPost(id)) = {} THEN {} ELSE {WithUser(GetPost(id))}
      [] route = "GET /api/users/:id/posts" -> {WithUser(GetUserPosts(id))}
      [] route = "POST /api/posts/:id/comments" ->
           IF ~IsAuthenticated(caller) \/ GetPost(id) = {} \/ ~CommentValid(arg) \/ GetUser(caller) = {}
           THEN {}
           ELSE {WithUser({[id |-> serial["comments"], userId |-> caller,
                            postId |-> id, content |-> arg]})}
      [] route = "GET /api/posts/:id/comments" ->
           IF GetPost(id) = {} THEN {} ELSE {WithUser(GetCommentsByPost(id))}
      [] route = "GET /api/users/:id/followers" ->
           IF GetUser(id) = {} THEN {}
           ELSE {{WithoutPassword(u) : u \in r} : r \in GetFollowers(id)}
      [] route = "GET /api/users/:id/following" ->
           IF GetUser(id) = {} THEN {}
           ELSE {{WithoutPassword(u) : u \in r} : r \in GetFollowing(id)}
      [] route = "GET /api/stories" -> {WithUser(GetActiveStories)}
      [] route = "GET /api/users/:id/stories" ->
           IF GetUser(id) = {} THEN {} ELSE {WithUser(GetUserStories(id))}

\* req.query.q, or req.body of the routes that read one
JsonArgs(route) ==
    IF route = "PATCH /api/users/:id" THEN [displayName : {Null, "new"}, bio : {Null}, password : {Null, "pw2"}]
    ELSE IF route = "POST /api/posts/:id/comments" THEN {Null, "nice"}
    ELSE {Null, "JAY.K", "user1"}

\* ------------------------------------------------------------ request inputs
Callers == UserIds \cup {Anon}
IdInputs == 1..(MaxUsers + 1)
PostInputs == {<<"text", Null>>, <<"image", "url">>}

Bodies == [displayName : {Null, "new"}, bio : {Null}, password : {Null, "pw2"}]
Captions == {Null, "hello"}
Contents == {Null, "nice"}
Queries == {Null, "JAY.K"}
PostPaths == {<<"api", "posts", x>> : x \in {"1", "2", "x"}}
UserPaths ==
    {<<"api", "users", x>> : x \in {"1", "2", "3", "search"}}
    \cup {<<"api", "users", x, "exists">> : x \in {"user1", "nobody", "search"}}
    \cup {<<"api", "users">>}

\* follow graph and feed, with room for two followers of one user
NextGraph ==
    \/ serial["users"] <= GraphUsers /\ CreateUser
    \/ \E u \in UserIds, pi \in PostInputs :
           serial["posts"] <= MaxPosts /\ CreatePost(u, pi[1], pi[2])
    \/ \E c \in Callers, id \in 1..(GraphUsers + 1) :
           serial["follows"] <= GraphFollows /\ PostFollow(c, id)
    \/ \E c \in Callers, id \in 1..(GraphUsers + 1) : DeleteFollowRoute(c, id)

SpecGraph == Init /\ [][NextGraph]_vars

\* the follow routes
NextFollow ==
    \/ serial["users"] <= MaxUsers /\ CreateUser
    \/ \E u \in UserIds, pi \in PostInputs :
           serial["posts"] <= MaxPosts /\ CreatePost(u, pi[1], pi[2])
    \/ \E c \in Callers, id \in IdInputs :
           /\ (IsAuthenticated(c) /\ ~IsSelfFollow(c, id) /\ GetUser(id) # {})
                  => serial["follows"] <= MaxFollows
           /\ PostFollow(c, id)
    \/ \E c \in Callers, id \in IdInputs : DeleteFollowRoute(c, id)

SpecFollow == Init /\ [][NextFollow]_vars

\* posts, their likes and their deletion
NextPosts ==
    \/ serial["users"] <= MaxUsers /\ CreateUser
    \/ \E u \in UserIds, pi \in PostInputs :
           serial["posts"] <= MaxPosts /\ CreatePost(u, pi[1], pi[2])
    \/ \E c \in Callers, id \in 1..(MaxPosts + 1) :
           serial["likes"] <= MaxLikes /\ PostLike(c, id)
    \/ \E c \in Callers, id \in 1..(MaxPosts + 1) : DeleteLikeRoute(c, id)
    \/ \E c \in Callers, id \in 1..(MaxPosts + 1) : DeletePostRoute(c, id)

SpecPosts == Init /\ [][NextPosts]_vars

\* stories and the clock
NextStories ==
    \/ serial["users"] <= MaxUsers /\ CreateUser
    \/ \E u \in UserIds, e \in 0..(MaxTime + 1) :
           serial["stories"] <= MaxStories /\ CreateStory(u, e)
    \/ now < MaxTime /\ Tick

SpecStories == Init /\ [][NextStories]_vars

\* user lookup, search and profile update
NextUsers ==
    \/ serial["users"] <= MaxUsers /\ CreateUser
    \/ \E c \in Callers, id \in IdInputs, body \in Bodies : PatchUser(c, id, body)
    \/ \E c \in Callers, path \in UserPaths, q \in Queries : Get(c, path, q)

SpecUsers == Init /\ [][NextUsers]_vars

\* every state-changing route, called without a session or by the first user
ApiCallers == {Anon} \cup (UserIds \cap {1})
ApiFiles == {NoFile, [major |-> "image", sub |-> "png"], [major |-> "application", sub |-> "pdf"]}

\* rows inserted so far into posts, likes, comments and follows, and files written
RowsInserted ==
    (serial["posts"] - 1) + (serial["likes"] - 1) + (serial["comments"] - 1)
    + (serial["follows"] - 1) + (nextFile - 1)

NextApi ==
    \/ serial["users"] <= MaxUsers /\ CreateUser
    \/ \E u \in UserIds : RowsInserted < ApiRows /\ CreatePost(u, "text", Null)
    \/ \E c \in ApiCallers, caption \in Captions, file \in ApiFiles :
           ((IsAuthenticated(c) /\ FileStored(file)) => RowsInserted < ApiRows)
           /\ PostPosts(c, caption, file)
    \/ \E c \in ApiCallers, id \in 1..ApiRows : DeletePostRoute(c, id)
    \/ \E c \in ApiCallers, id \in 1..ApiRows :
           (IsAuthenticated(c) => RowsInserted < ApiRows) /\ PostLike(c, id)
    \/ \E c \in ApiCallers, id \in 1..ApiRows : DeleteLikeRoute(c, id)
    \/ \E c \in ApiCallers, id \in 1..ApiRows, content \in Contents :
           (IsAuthenticated(c) => RowsInserted < ApiRows) /\ PostComment(c, id, content)
    \/ \E c \in ApiCallers, id \in IdInputs :
           (IsAuthenticated(c) => RowsInserted < ApiRows) /\ PostFollow(c, id)
    \/ \E c \in ApiCallers, id \in IdInputs : DeleteFollowRoute(c, id)
    \/ \E c \in ApiCallers, id \in IdInputs :
           PatchUser(c, id, [displayName |-> "new", bio |-> Null, password |-> Null])

SpecApi == Init /\ [][NextApi]_vars

\* POST /api/posts in both versions of registerRoutes
NextUpload ==
    \/ serial["users"] <= MaxUsers /\ CreateUser
    \/ \E c \in Callers, caption \in Captions, file \in {NoFile} \cup Mimetypes :
           ((IsAuthenticated(c) /\ FileStored(file)) => nextFile <= MaxFiles)
           /\ PostPosts(c, caption, file)
    \/ \E c \in Callers, caption \in Captions, type \in BodyTypes, file \in {NoFile} \cup Mimetypes :
           /\ IsAuthenticated(c) => (serial["posts"] <= MaxPosts /\ nextFile <= MaxFiles)
           /\ PostPostsEarlier(c, caption, type, file)

SpecUpload == Init /\ [][NextUpload]_vars

\* posts created at different instants, by followed and unfollowed users
NextOrder ==
    \/ serial["users"] <= MaxUsers /\ CreateUser
    \/ \E u \in UserIds : serial["posts"] <= OrderPosts /\ CreatePost(u, "text", Null)
    \/ now < OrderTime /\ Tick
    \/ \E c \in UserIds, id \in UserIds :
           serial["follows"] <= MaxFollows /\ ~IsFollowing(c, id) /\ PostFollow(c, id)
    \/ \E p \in posts : DeletePostRoute(p.userId, p.id)

SpecOrder == Init /\ [][NextOrder]_vars

\* users, the rows of the first user that embed them, and profile updates that
\* change a password
JsonInserted ==
    (serial["posts"] - 1) + (serial["comments"] - 1) + (serial["follows"] - 1)
    + (serial["stories"] - 1)

NextJson ==
    \/ serial["users"] <= MaxUsers /\ CreateUser
    \/ \E u \in ApiCallers \ {Anon} : JsonInserted < JsonRows /\ CreatePost(u, "text", Null)
    \/ \E u \in ApiCallers \ {Anon} : JsonInserted < JsonRows /\ CreateStory(u, MaxTime)
    \/ \E c \in ApiCallers \ {Anon} :
           JsonInserted < JsonRows /\ GetPost(1) # {} /\ PostComment(c, 1, "nice")
    \/ \E c \in ApiCallers \ {Anon}, id \in UserIds :
           JsonInserted < JsonRows /\ c # id /\ ~IsFollowing(c, id) /\ PostFollow(c, id)
    \/ \E c \in UserIds, body \in Bodies : PatchUser(c, c, body)

SpecJson == Init /\ [][NextJson]_vars

\* likes and comments of posts, and the post lookup that counts them
LikeRowsInserted == (serial["likes"] - 1) + (serial["comments"] - 1)

NextLikes ==
    \/ serial["users"] <= MaxUsers /\ CreateUser
    \/ \E u \in UserIds : serial["posts"] <= MaxPosts /\ CreatePost(u, "text", Null)
    \/ \E c \in Callers, id \in 1..(MaxPosts + 1) :
           /\ (IsAuthenticated(c) /\ GetPost(id) # {} /\ ~HasUserLikedPost(c, id))
                 => LikeRowsInserted < LikeRows
           /\ PostLike(c, id)
    \/ \E c \in Callers, id \in 1..(MaxPosts + 1) : DeleteLikeRoute(c, id)
    \/ \E c \in ApiCallers \ {Anon}, id \in 1..MaxPosts :
           LikeRowsInserted < LikeRows /\ PostComment(c, id, "nice")
    \/ \E c \in Callers, path \in PostPaths : Get(c, path, Null)

SpecLikes == Init /\ [][NextLikes]_vars

\* like and follow requests whose steps interleave
NextRace ==
    \/ serial["users"] <= MaxUsers /\ CreateUser
    \/ \E u \in UserIds : serial["posts"] <= MaxPosts /\ CreatePost(u, "text", Null)
    \/ \E n \in Slots, c \in UserIds, id \in 1..MaxPosts : BeginLike(n, c, id)
    \/ \E n \in Slots, c \in UserIds, id \in UserIds : BeginFollow(n, c, id)
    \/ \E n \in Slots : CheckExists(n)
    \/ \E n \in Slots : SelectExisting(n)
    \/ \E n \in Slots : InsertRow(n)

SpecRace == Init /\ [][NextRace]_vars

Next == NextGraph \/ NextFollow \/ NextPosts \/ NextStories \/ NextUsers \/ NextApi \/ NextUpload \/ NextOrder \/ NextJson \/ NextLikes \/ NextRace

Spec == Init /\ [][Next]_vars

\* ------------------------------------------------- follow graph and feed
FollowedOrOwnPosts(u) == {p \in posts : p.userId = u \/ IsFollowing(u, p.userId)}

\* C1: for every user u, getFeedPosts(u) is exactly the posts whose author is u
\* or a user that u follows.
C1_FeedIsOwnAndFollowed ==
    \A u \in UserIds : GetFeedPosts(u) = FollowedOrOwnPosts(u)

\* C2: getFollowers(u) is exactly the users that follow u and getFollowing(u)
\* exactly the users u follows, so the lengths shown are the numbers of follow records.
C2_FollowListsComplete ==
    \A u \in UserIds :
        /\ \A r \in GetFollowers(u) :
               /\ {x.id : x \in r} = {w \in UserIds : IsFollowing(w, u)}
               /\ Cardinality(r) = Cardinality({f \in follows : f.followingId = u})
        /\ \A r \in GetFollowing(u) :
               /\ {x.id : x \in r} = {w \in UserIds : IsFollowing(u, w)}
               /\ Cardinality(r) = Cardinality({f \in follows : f.followerId = u})

\* C4: DELETE /api/posts/:id by an authenticated user who is not the post's
\* author answers 403 and the post stays; a post that disappears in a step was
\* removed by a DELETE request for it authenticated as its userId.
C4_OnlyAuthorDeletes ==
    [][\A p \in posts :
          /\ (/\ req'.route = "DELETE /api/posts/:id" /\ req'.id = p.id
              /\ req'.caller # Anon /\ req'.caller # p.userId)
                 => (resp'.status = 403 /\ p \in posts')
          /\ (p \notin posts')
                 => (/\ req'.route = "DELETE /api/posts/:id" /\ req'.id = p.id
                     /\ req'.caller = p.userId /\ resp'.status = 200)]_vars

C4_Witness ==
    /\ req.route = "DELETE /api/posts/:id" /\ resp.status = 403
    /\ \E p \in posts : p.id = req.id /\ p.userId # req.caller /\ req.caller \in UserIds

\* C7: POST /api/users/:id/follow on oneself answers 400 and creates nothing; no
\* follow row ever has followerId equal to followingId.
C7_NoSelfFollow ==
    /\ [](\A f \in follows : f.followerId # f.followingId)
    /\ [][(/\ req'.route = "POST /api/users/:id/follow"
           /\ req'.caller # Anon /\ req'.id = req'.caller)
              => (resp'.status = 400 /\ follows' = follows)]_vars

C7_Witness ==
    /\ req.route = "POST /api/users/:id/follow" /\ req.caller # Anon
    /\ req.id = req.caller /\ resp.status = 400 /\ follows # {}

\* C8: createFollow(u, v) with u # v makes isFollowing(u, v) true and leaves
\* isFollowing(v, u) and getFeedPosts(v) as they were (in both storages).
C8_FollowIsDirectional ==
    [][\A u \in UserIds, v \in UserIds :
          (/\ req'.route = "POST /api/users/:id/follow" /\ resp'.status = 201
           /\ req'.caller = u /\ req'.id = v /\ u # v)
             => /\ IsFollowing(u, v)'
                /\ IsFollowing(v, u)' <=> IsFollowing(v, u)
                /\ GetFeedPosts(v)' = GetFeedPosts(v)
                /\ MemGetFeedPosts(v)' = MemGetFeedPosts(v)]_vars

C8_Witness ==
    /\ req.route = "POST /api/users/:id/follow" /\ resp.status = 201
    /\ IsFollowing(req.caller, req.id) /\ ~IsFollowing(req.id, req.caller)
    /\ \E p \in posts : p.userId = req.caller

\* ------------------------------------------------------------ stories
\* C3: at any time, getActiveStories and getUserStories return a story exactly
\* when its expiresAt is strictly later than now (and, for getUserStories, it is
\* the user's); a story once omitted is never returned again.
C3_StoriesExpire ==
    /\ [](\A s \in stories :
            /\ s \in GetActiveStories <=> s.expiresAt > now
            /\ s \in MemGetActiveStories <=> s.expiresAt > now
            /\ \A u \in 1..(MaxUsers + 1) :
                   /\ s \in GetUserStories(u) <=> (s.userId = u /\ s.expiresAt > now)
                   /\ s \in MemGetUserStories(u) <=> (s.userId = u /\ s.expiresAt > now))
    /\ [][\A s \in stories :
            /\ s \notin GetActiveStories => s \notin GetActiveStories'
            /\ s \notin GetUserStories(s.userId) => s \notin GetUserStories(s.userId)'
            /\ s \notin MemGetActiveStories => s \notin MemGetActiveStories']_vars

C3_Witness ==
    \E s \in stories, t \in stories :
        /\ s.createdAt < s.expiresAt /\ s.expiresAt = now /\ s \notin GetActiveStories
        /\ s \notin GetUserStories(s.userId)
        /\ t \in GetActiveStories /\ t \in GetUserStories(t.userId)

\* ------------------------------------------------------------ user routes
\* C5: PATCH /api/users/:id by an authenticated user other than :id answers 403
\* and changes no user row.
C5_OnlyOwnProfile ==
    [][(/\ req'.route = "PATCH /api/users/:id"
        /\ req'.caller # Anon /\ req'.caller # req'.id)
           => (resp'.status = 403 /\ users' = users)]_vars

C5_Witness ==
    /\ req.route = "PATCH /api/users/:id" /\ resp.status = 403
    /\ req.caller \in UserIds /\ req.id \in UserIds /\ req.arg.password # Null
    /\ \E u \in users : u.id = req.id /\ u.password = SeedPassword

\* C9: a GET /api/users/search request is answered by the search handler: 200
\* with the users of searchUsers(q) for a non-empty q, 400 for a missing q.
C9_SearchRouteAnswers ==
    (req.route = "GET" /\ req.arg.path = <<"api", "users", "search">>)
        => /\ resp.handler = "GET /api/users/search"
           /\ IF req.arg.q = Null
              THEN resp.status = 400 /\ resp.msg = "Query parameter 'q' is required"
              ELSE resp.status = 200 /\ resp.data = Ids(SearchUsers(req.arg.q))

\* ------------------------------------------------------ state-changing routes
StateChangingRoutes ==
    {"POST /api/posts", "DELETE /api/posts/:id", "POST /api/posts/:id/like",
     "DELETE /api/posts/:id/like", "POST /api/posts/:id/comments",
     "POST /api/users/:id/follow", "DELETE /api/users/:id/follow", "PATCH /api/users/:id"}

\* C6: every state-changing route called without a session answers 401 and
\* leaves users, posts, likes, comments, follows and the upload directory as they were.
C6_UnauthenticatedChangesNothing ==
    [][(req'.route \in StateChangingRoutes /\ req'.caller = Anon)
           => (/\ resp'.status = 401
               /\ UNCHANGED <<users, posts, likes, comments, follows, uploads>>)]_vars

C6_Witness ==
    /\ req.route = "POST /api/posts" /\ req.caller = Anon /\ resp.status = 401
    /\ req.arg.file.major = "image" /\ req.arg.caption # Null
    /\ posts # {} /\ users # {}

\* C10: POST /api/posts by an authenticated user with a caption and no file
\* answers 201 and stores a text post of that user, which getPost then returns.
C10_TextPostCreated ==
    (/\ req.route = "POST /api/posts" /\ req.caller # Anon
     /\ req.arg.caption # Null /\ req.arg.file = NoFile)
        => /\ resp.status = 201
           /\ \E p \in posts :
                 /\ p.id \in resp.data /\ p.userId = req.caller /\ p.type = "text"
                 /\ GetPost(p.id) = {p}

NewestFirstList(l) == \A i, j \in 1..Len(l) : i < j => l[i].createdAt >= l[j].createdAt

Limits == {1, 2, 20}
Offsets == {0, 1}

\* C12: every list getPosts, getUserPosts and getFeedPosts can return, in
\* DatabaseStorage and in MemStorage, is newest first: a post before another has
\* a createdAt greater than or equal to the other's.
C12_PostsNewestFirst ==
    /\ \A limit \in Limits, offset \in Offsets :
          /\ \A l \in GetPostsOrdered(limit, offset) : NewestFirstList(l)
          /\ NewestFirstList(MemGetPostsOrdered(limit, offset))
    /\ \A u \in UserIds :
          /\ \A l \in GetUserPostsOrdered(u) : NewestFirstList(l)
          /\ \A l \in GetFeedPostsOrdered(u) : NewestFirstList(l)
          /\ NewestFirstList(MemGetUserPostsOrdered(u))
          /\ NewestFirstList(MemGetFeedPostsOrdered(u))

\* two posts of different instants in one list, the later one first, in the
\* lists of both storages
C12_Witness ==
    /\ \E l \in GetPostsOrdered(20, 0) :
          Len(l) = 2 /\ l[1].createdAt > l[2].createdAt /\ l[1].id > l[2].id
    /\ \E u \in UserIds :
          LET m == MemGetFeedPostsOrdered(u) IN
          Len(m) = 2 /\ m[1].createdAt > m[2].createdAt /\ m[1].userId # m[2].userId

\* ------------------------------------------------------------ passwords
\* a user object, alone or embedded in a row, carries no password field
NoPassword(o) ==
    /\ "password" \notin DOMAIN o
    /\ "user" \in DOMAIN o => "password" \notin DOMAIN o.user

NoPasswordInAnyBody ==
    \A route \in JsonRoutes, c \in Callers, id \in IdInputs :
       \A arg \in JsonArgs(route) :
          \A body \in Json(route, c, id, arg) : \A o \in body : NoPassword(o)

\* a step that changes stored passwords and nothing else
OnlyPasswordsChange ==
    /\ users' # users
    /\ {WithoutPassword(u) : u \in users'} = {WithoutPassword(u) : u \in users}
    /\ UNCHANGED <<posts, likes, comments, follows, stories, serial, now>>

\* C13: no body a route of registerRoutes answers with holds a password, alone
\* or in an embedded user; and a change of stored passwords alone changes the
\* answer to no request.
C13_NoPasswordInResponses ==
    /\ []NoPasswordInAnyBody
    /\ [][OnlyPasswordsChange
            => \A route \in JsonRoutes, c \in Callers, id \in IdInputs :
                  \A arg \in JsonArgs(route) :
                     Json(route, c, id, arg)' = Json(route, c, id, arg)]_vars

\* a user whose password was changed by a profile update is returned by the
\* lookup route, as a follower and embedded in a post
C13_Witness ==
    /\ req.route = "PATCH /api/users/:id" /\ resp.status = 200
    /\ \E u \in users :
          /\ u.id = req.caller /\ u.password = "pw2"
          /\ Json("GET /api/users/:id", Anon, u.id, Null) = {{WithoutPassword(u)}}
          /\ \E v \in UserIds : WithoutPassword(u) \in UNION Json("GET /api/users/:id/followers", Anon, v, Null)
          /\ \E b \in Json("GET /api/posts", Anon, 0, Null) : \E o \in b : o.user = WithoutPassword(u)

\* ------------------------------------------------------------ likes
LikersOf(postId) == {l.userId : l \in {k \in likes : k.postId = postId}}

\* C14: GET /api/posts/:id answers with likes equal to the number of distinct
\* users who like the post now, comments equal to the number of its comments,
\* and hasLiked true exactly when the request is authenticated and its user
\* likes the post now.
C14_PostCounts ==
    (req.route = "GET" /\ resp.handler = "GET /api/posts/:id" /\ resp.status = 200)
       => \A o \in resp.data :
             /\ o.likes = Cardinality(LikersOf(o.id))
             /\ o.comments = Cardinality({c \in comments : c.postId = o.id})
             /\ o.hasLiked <=> /\ req.caller # Anon
                               /\ req.caller \in LikersOf(o.id)

\* a post liked by another user and not by the caller, with a comment
C14_Witness ==
    /\ req.route = "GET" /\ resp.handler = "GET /api/posts/:id" /\ resp.status = 200
    /\ req.caller # Anon
    /\ \E o \in resp.data : o.likes = 1 /\ o.comments = 1 /\ ~o.hasLiked

\* C15: POST /api/posts/:id/like by a user who already likes the post answers
\* with the existing like (same id) and adds no record; so no two likes share
\* their user and post.
C15_LikeIsIdempotent ==
    /\ [](\A l1 \in likes, l2 \in likes :
             (l1.userId = l2.userId /\ l1.postId = l2.postId) => l1 = l2)
    /\ [][\A l \in likes :
             (/\ req'.route = "POST /api/posts/:id/like"
              /\ req'.caller = l.userId /\ req'.id = l.postId)
                => /\ resp'.status = 201 /\ resp'.data = {l.id}
                   /\ likes' = likes]_vars

\* the caller liked, someone else liked later, and the caller liked again
C15_Witness ==
    /\ req.route = "POST /api/posts/:id/like" /\ resp.status = 201
    /\ \E l \in likes :
          /\ l.userId = req.caller /\ l.postId = req.id /\ resp.data = {l.id}
          /\ l.id + 1 < serial["likes"]

\* ------------------------------------------------------------ concurrency
\* C16: when every like or follow request that was being handled has been
\* answered, whatever the order of their checks and inserts, the likes table
\* holds exactly one like for the user and post of each request answered 201,
\* and the follows table exactly one follow for its follower and followed user.
C16_ConcurrentCreateOnce ==
    (\A n \in Slots : inflight[n].pc \in {"idle", "done"})
       => \A n \in Slots :
             inflight[n].status = 201 => Cardinality(Existing(inflight[n])) = 1

====
